---- MODULE Spec2Model ----
(***************************************************************************)
(* CALayer of touchHLE (src/frameworks/core_animation/ca_layer.rs): the    *)
(* layer tree, the reference counts it moves, and displayIfNeeded with its *)
(* cached bitmap context.                                                  *)
(*                                                                         *)
(* Objects are numbered: 0 is nil, layers are 1..NLayers, colors are       *)
(* 101.., images are 201...  A reference count of 0 means "not allocated"  *)
(* (never allocated, or deallocated).  A Rust panic ends the process: the  *)
(* variable panic then names it and no further operation runs.             *)
(***************************************************************************)
EXTENDS Integers, Sequences, FiniteSets, TLC

\* ---------------------------------------------------------------- bounds
NLayers == 3
NColors == 2
NImages == 1
MaxContexts == 2
MaxGuestRefs == 2
Precision == 3
MaxCoord == 6
MaxFiles == 2

nil == 0
Layers == 1..NLayers
Colors == 101..(100 + NColors)
Images == 201..(200 + NImages)
Objects == Layers \cup Colors \cup Images

\* The layer the rendering specification follows.  Every rendering
\* operation reads and writes the fields of `this` only.
RenderLayers == {1}

VARIABLES
    host,       \* env.objc host objects: layer id -> CALayerHostObject
    refcount,   \* env.objc reference counts: object id -> Nat
    guestRefs,  \* references the guest application owns on each layer
    contexts,   \* bitmap contexts created so far (CGContextRef = index)
    panic,      \* "none", or the panic that ended the process
    call,       \* the delegate callback displayIfNeeded is inside, or NoCall
    changed,    \* history: layers whose content changed since their last upload
    posix_io,   \* env.libc_state.posix_io: the table of open files
    op          \* the last operation: its name, receiver, argument, ...

vars == <<host, refcount, guestRefs, contexts, panic, call, changed, posix_io, op>>

\* ------------------------------------------------------------- geometry
\* Lengths are kept in halves (3 is 1.5) so that rounding is a real
\* conversion.  f32::round rounds half away from zero.
round(halves) == (halves + 1) \div 2

Rect(x, y, w, h) == [origin |-> [x |-> x, y |-> y], size |-> [width |-> w, height |-> h]]
ZeroRect == Rect(0, 0, 0, 0)
\* The rectangles setBounds: is given.  1.5 x 1 and 2 x 1 both round to
\* 2 x 1; 2 x 2 differs from them in the height only.
Rects == {Rect(0, 0, 3, 2), Rect(2, 0, 4, 2), Rect(0, 0, 4, 4)}

\* CGFloat is f32.  Here a float has Precision bits of significand and the
\* least unit is one half: the floats are 0..7, 8, 10, .., 14, 16, 20, ..
\* halves and their negatives.  Every operation rounds its exact result to
\* the nearest float, ties to the even significand.
RECURSIVE Pow2(_)
Pow2(n) == IF n = 0 THEN 1 ELSE 2 * Pow2(n - 1)
Abs(n) == IF n < 0 THEN 0 - n ELSE n
RECURSIVE Ulp(_, _, _)
\* The unit in the last place of num/den halves, num >= 0, from u upwards.
Ulp(num, den, u) == IF num < Pow2(Precision) * u * den THEN u ELSE Ulp(num, den, 2 * u)
UlpOf(v) == Ulp(Abs(v), 1, 1)
RoundTiesEven(num, den) ==
    LET u == Ulp(num, den, 1)
        q == num \div (den * u)
        twice == 2 * (num - q * den * u)
    IN  IF twice < den * u \/ (twice = den * u /\ q % 2 = 0) THEN q * u ELSE (q + 1) * u
\* The float nearest to num/den halves.
f32(num, den) == IF num < 0 THEN 0 - RoundTiesEven(0 - num, den) ELSE RoundTiesEven(num, den)
fadd(a, b) == f32(a + b, 1)
fsub(a, b) == f32(a - b, 1)
fmul(a, b) == f32(a * b, 2)

Point(x, y) == [x |-> x, y |-> y]
\* The coordinates and sizes the guest passes: floats up to MaxCoord,
\* the small ones and the large ones.
Coords == {n \in {0 - MaxCoord, 0 - 1, 0, 1, MaxCoord - 1, MaxCoord} : f32(n, 1) = n}
Sizes == {n \in {0, 1, MaxCoord - 1, MaxCoord} : f32(n, 1) = n}
\* 0, 0.5 and 1
Anchors == {0, 1, 2}
AnchorPoints == {Point(x, y) : x, y \in Anchors}
Positions == {Point(0, 0), Point(5, 0 - 3)}
Frames ==
    {Rect(x, y, w, h) : x \in Coords, y \in {0 - 1, MaxCoord}, w \in Sizes, h \in {1, MaxCoord}}

\* ------------------------------------------------------------ delegates
\* A delegate is known to CALayer only through what its class answers to
\* class_has_method_named, class_is_subclass_of and
\* class_overrides_method_of_superclass.
DelegateClass(d, v, r, l) ==
    [displayLayer |-> d, isUIView |-> v, overridesDrawRect |-> r, overridesDrawLayer |-> l]
PlainUIView    == DelegateClass(FALSE, TRUE, FALSE, FALSE)
CustomUIView   == DelegateClass(FALSE, TRUE, TRUE, FALSE)
DrawingObject  == DelegateClass(FALSE, FALSE, FALSE, TRUE)
DisplayingObject == DelegateClass(TRUE, FALSE, FALSE, TRUE)
\* The delegate objects of the guest, one of each class.
Delegates == {301, 302, 303, 304}
\* ObjC::read_isa
read_isa(delegate) ==
    CASE delegate = 301 -> PlainUIView
      [] delegate = 302 -> CustomUIView
      [] delegate = 303 -> DrawingObject
      [] delegate = 304 -> DisplayingObject

\* ------------------------------------------------------- the host object
None == 0
\* GuestOpenOptions::new()
NoOptions ==
    [read |-> FALSE, write |-> FALSE, append |-> FALSE, create |-> FALSE, truncate |-> FALSE]

\* +alloc
InitHost ==
    [delegate |-> nil,
     sublayers |-> <<>>,
     superlayer |-> nil,
     bounds |-> ZeroRect,
     position |-> [x |-> 0, y |-> 0],
     anchor_point |-> [x |-> 1, y |-> 1],
     background_color |-> nil,
     needs_display |-> TRUE,
     contents |-> nil,
     drawable_properties |-> nil,
     cg_context |-> None,
     gles_texture_is_up_to_date |-> FALSE]

\* The frame of displayIfNeeded while the delegate runs: the receiver, the
\* selector sent, and the copies of cg_context and bounds.origin it holds.
NoCall == [this |-> nil, selector |-> "none", cg_context |-> None, origin |-> [x |-> 0, y |-> 0]]
\* op.before is a value read before the operation ran: the old superlayer
\* (addSublayer:, removeFromSuperlayer), the number of sublayers (release),
\* the argument's reference count (setBackgroundColor:, setContents:), the
\* cached context (displayIfNeeded).  For setNeedsDisplay it is 1 when the
\* call is the first one a delegate callback makes, on the layer being
\* rendered; for the return of a callback it is 0 when the callback made no
\* call, 1 when its only call was that setNeedsDisplay, and 2 otherwise.
\* For displayIfNeeded, op.dirty is needs_display as read, and op.after is
\* "quiet" or "dirtied" when the call directly follows a displayIfNeeded of
\* the same layer whose callback returned 0 or 1 (or that sent none).
\* For setContents: and displayIfNeeded, op.texture is
\* gles_texture_is_up_to_date as it was before.  op.rect is the argument of
\* setFrame:; for a read of frame, op.result is the value returned, and
\* when the read directly follows a setFrame: of the layer, op.before is 1
\* and op.rect is still that argument.  For open, op.arg is the flags,
\* op.options what was passed to the file system and op.before the value
\* returned; for close, op.arg is the descriptor and op.before the value
\* returned.
NoOp == [name |-> "start", this |-> nil, arg |-> nil, before |-> 0,
         callback |-> "none", cg_context |-> None, draw |-> FALSE,
         dirty |-> FALSE, after |-> "other", texture |-> FALSE,
         rect |-> ZeroRect, result |-> ZeroRect, options |-> NoOptions]
Op(name, this, arg) == [NoOp EXCEPT !.name = name, !.this = this, !.arg = arg]

\* The world an operation runs in: the program state and `uaf`, what a
\* use of a freed object does in this run: "panic" (the object table has
\* no such entry) or "stale" (the stale memory is read or written).
World(uaf) ==
    [host |-> host, refcount |-> refcount, contexts |-> contexts,
     panic |-> panic, uaf |-> uaf]
UafOutcomes == {"panic", "stale"}

Commit(w) ==
    /\ host' = w.host
    /\ refcount' = w.refcount
    /\ contexts' = w.contexts
    /\ panic' = w.panic

Panic(w, what) == IF w.panic = "none" THEN [w EXCEPT !.panic = what] ELSE w
UseFreed(w) == IF w.uaf = "panic" THEN Panic(w, "use of a freed object") ELSE w
\* The worlds handler F can end in: one per outcome of a use of a freed
\* object, and a single one when F uses none.
Outcomes(F(_)) ==
    LET strict == F(World("panic"))
    IN  IF strict.panic = "use of a freed object" /\ panic = "none"
        THEN {strict, F(World("stale"))}
        ELSE {strict}

Range(s) == {s[i] : i \in 1..Len(s)}
\* Iterator::position
position(s, x) == CHOOSE i \in 1..Len(s) : s[i] = x /\ \A j \in 1..(i - 1) : s[j] # x
\* Vec::remove
remove(s, idx) == SubSeq(s, 1, idx - 1) \o SubSeq(s, idx + 1, Len(s))

\* ------------------------------------------------- reference counting
RECURSIVE release(_, _)
RECURSIVE dealloc(_, _)
RECURSIVE releaseSublayers(_, _)

\* objc::retain, a no-op on nil
retain(w, obj) ==
    IF w.panic # "none" \/ obj = nil THEN w
    ELSE IF w.refcount[obj] = 0 THEN UseFreed(w)
    ELSE [w EXCEPT !.refcount[obj] = @ + 1]

\* CFRetain "doesn't like nil"
CFRetain(w, obj) ==
    IF w.panic # "none" THEN w
    ELSE IF obj = nil THEN Panic(w, "CFRetain(nil)")
    ELSE retain(w, obj)

\* objc::release, a no-op on nil; the last release of a layer runs dealloc
release(w, obj) ==
    IF w.panic # "none" \/ obj = nil THEN w
    ELSE IF w.refcount[obj] = 0 THEN UseFreed(w)
    ELSE LET w1 == [w EXCEPT !.refcount[obj] = @ - 1]
         IN  IF w1.refcount[obj] = 0 /\ obj \in Layers THEN dealloc(w1, obj) ELSE w1

\* CFRelease "doesn't like nil"
CFRelease(w, obj) ==
    IF w.panic # "none" THEN w
    ELSE IF obj = nil THEN Panic(w, "CFRelease(nil)")
    ELSE release(w, obj)

\* CGBitmapContextCreate: a new context of the given integer size
CGBitmapContextCreate(w, width, height, owner) ==
    IF w.panic # "none" THEN w
    ELSE [w EXCEPT !.contexts =
            Append(@, [width |-> width, height |-> height, releases |-> 0, owner |-> owner,
                       tx |-> 0, ty |-> 0])]

\* CGContextRelease.  releases counts the calls; 2 stands for "more than once".
CGContextRelease(w, c) ==
    IF w.panic # "none" THEN w
    ELSE IF w.contexts[c].releases > 0
         THEN LET w1 == UseFreed(w)
              IN  IF w1.panic # "none" THEN w1 ELSE [w1 EXCEPT !.contexts[c].releases = 2]
    ELSE [w EXCEPT !.contexts[c].releases = 1]

\* A plausible slip: the sublayers are released but keep their superlayer.
releaseSublayers_KeepsSuperlayer(w, sublayers) ==
    IF w.panic # "none" \/ sublayers = <<>> THEN w
    ELSE releaseSublayers(release(w, Head(sublayers)), Tail(sublayers))

\* A plausible slip: the sublayers are detached but never released.
releaseSublayers_NoRelease(w, sublayers) ==
    IF w.panic # "none" \/ sublayers = <<>> THEN w
    ELSE releaseSublayers([w EXCEPT !.host[Head(sublayers)].superlayer = nil], Tail(sublayers))

\* The loop of dealloc over the sublayers taken from the layer.
releaseSublayers(w, sublayers) ==
    IF w.panic # "none" \/ sublayers = <<>> THEN w
    ELSE LET sublayer == Head(sublayers)
             w1 == [w EXCEPT !.host[sublayer].superlayer = nil]
         IN  releaseSublayers(release(w1, sublayer), Tail(sublayers))

\* env.objc.dealloc_object: the host object is dropped.
dealloc_object(w, this) ==
    IF w.panic # "none" THEN w ELSE [w EXCEPT !.host[this] = InitHost]

\* - (())dealloc
dealloc(w, this) ==
    LET h == w.host[this]
        w0 == [w EXCEPT !.host[this].sublayers = <<>>]
        w1 == IF h.drawable_properties # nil THEN release(w0, h.drawable_properties) ELSE w0
        w2 == IF h.contents # nil THEN release(w1, h.contents) ELSE w1
        w3 == IF h.background_color # nil THEN CFRelease(w2, h.background_color) ELSE w2
        w4 == IF h.cg_context # None THEN CGContextRelease(w3, h.cg_context) ELSE w3
        w5 == IF h.superlayer # nil THEN Panic(w4, "assert superlayer == nil") ELSE w4
        w6 == releaseSublayers(w5, h.sublayers)
    IN  dealloc_object(w6, this)

\* ------------------------------------------------------ the layer tree
\* bringSublayerToFront: is sent by addSublayer: but CALayer's
\* implementation is not in ca_layer.rs; it is the specification's
\* "remove-then-append" with no change of any reference count.
bringSublayerToFront(w, this, layer) ==
    IF w.panic # "none" THEN w
    ELSE LET sublayers == w.host[this].sublayers
         IN  IF layer \notin Range(sublayers) THEN w
             ELSE [w EXCEPT !.host[this].sublayers =
                     Append(remove(sublayers, position(sublayers, layer)), layer)]

\* A plausible slip: the strong reference of the parent is not given back.
removeFromSuperlayer_NoRelease(w, this) ==
    LET superlayer == w.host[this].superlayer
        w1 == [w EXCEPT !.host[this].superlayer = nil]
    IN  IF w.panic # "none" \/ superlayer = nil THEN w
        ELSE LET sublayers == w1.host[superlayer].sublayers
             IN  IF this \notin Range(sublayers) THEN Panic(w1, "unwrap on None")
                 ELSE [w1 EXCEPT !.host[superlayer].sublayers =
                         remove(sublayers, position(sublayers, this))]

\* A plausible slip: a layer taken out of the tree is marked for display.
removeFromSuperlayer_MarksDirty(w, this) ==
    LET superlayer == w.host[this].superlayer
        w1 == [w EXCEPT !.host[this].superlayer = nil, !.host[this].needs_display = TRUE]
    IN  IF w.panic # "none" \/ superlayer = nil THEN w
        ELSE LET sublayers == w1.host[superlayer].sublayers
             IN  IF this \notin Range(sublayers) THEN Panic(w1, "unwrap on None")
                 ELSE LET idx == position(sublayers, this)
                          w2 == [w1 EXCEPT !.host[superlayer].sublayers = remove(sublayers, idx)]
                      IN  release(w2, this)

\* - (())removeFromSuperlayer
removeFromSuperlayer(w, this) ==
    LET superlayer == w.host[this].superlayer
        w1 == [w EXCEPT !.host[this].superlayer = nil]
    IN  IF w.panic # "none" \/ superlayer = nil THEN w
        ELSE LET sublayers == w1.host[superlayer].sublayers
             IN  IF this \notin Range(sublayers) THEN Panic(w1, "unwrap on None")
                 ELSE LET idx == position(sublayers, this)
                          w2 == [w1 EXCEPT !.host[superlayer].sublayers = remove(sublayers, idx)]
                      IN  release(w2, this)

\* A plausible slip: the layer is not detached from its old superlayer.
addSublayer_NoDetach(w, this, layer) ==
    IF w.panic # "none" THEN w
    ELSE IF w.host[layer].superlayer = this THEN bringSublayerToFront(w, this, layer)
    ELSE LET w1 == retain(w, layer)
             w3 == [w1 EXCEPT !.host[layer].superlayer = this]
         IN  [w3 EXCEPT !.host[this].sublayers = Append(@, layer)]

\* A plausible slip: the layer is retained before the test, on both paths.
addSublayer_RetainsAlways(w, this, layer) ==
    IF w.panic # "none" THEN w
    ELSE LET w1 == retain(w, layer)
         IN  IF w.host[layer].superlayer = this THEN bringSublayerToFront(w1, this, layer)
             ELSE LET w2 == removeFromSuperlayer(w1, layer)
                      w3 == [w2 EXCEPT !.host[layer].superlayer = this]
                  IN  [w3 EXCEPT !.host[this].sublayers = Append(@, layer)]

\* A plausible slip: the new sublayer is put first, not last.
addSublayer_Prepends(w, this, layer) ==
    IF w.panic # "none" THEN w
    ELSE IF w.host[layer].superlayer = this THEN bringSublayerToFront(w, this, layer)
    ELSE LET w1 == retain(w, layer)
             w2 == removeFromSuperlayer(w1, layer)
             w3 == [w2 EXCEPT !.host[layer].superlayer = this]
         IN  [w3 EXCEPT !.host[this].sublayers = <<layer>> \o @]

\* A plausible slip: the new superlayer takes no reference of its own.
addSublayer_NoRetain(w, this, layer) ==
    IF w.panic # "none" THEN w
    ELSE IF w.host[layer].superlayer = this THEN bringSublayerToFront(w, this, layer)
    ELSE LET w2 == removeFromSuperlayer(w, layer)
             w3 == [w2 EXCEPT !.host[layer].superlayer = this]
         IN  [w3 EXCEPT !.host[this].sublayers = Append(@, layer)]

\* - (())addSublayer:(id)layer
addSublayer(w, this, layer) ==
    IF w.panic # "none" THEN w
    ELSE IF w.host[layer].superlayer = this THEN bringSublayerToFront(w, this, layer)
    ELSE LET w1 == retain(w, layer)
             w2 == removeFromSuperlayer(w1, layer)
             w3 == [w2 EXCEPT !.host[layer].superlayer = this]
         IN  [w3 EXCEPT !.host[this].sublayers = Append(@, layer)]

\* ------------------------------------------------------------- actions
Running == panic = "none"
Alive(l) == refcount[l] > 0

\* [CALayer alloc] (and +layer): the guest owns the one reference.  Object
\* identities are interchangeable: the lowest free one is handed out.
Alloc(l) ==
    /\ Running /\ ~Alive(l) /\ \A k \in 1..(l - 1) : Alive(k)
    /\ host' = [host EXCEPT ![l] = InitHost]
    /\ refcount' = [refcount EXCEPT ![l] = 1]
    /\ guestRefs' = [guestRefs EXCEPT ![l] = 1]
    /\ op' = Op("alloc", l, nil)
    /\ UNCHANGED <<contexts, panic, call, changed, posix_io>>

\* The guest releases a reference it owns; the last one runs dealloc.
GuestRelease(l) ==
    /\ Running /\ Alive(l) /\ guestRefs[l] > 0
    /\ \E w \in Outcomes(LAMBDA w0 : release(w0, l)) : Commit(w)
    /\ guestRefs' = [guestRefs EXCEPT ![l] = @ - 1]
    /\ op' = [Op("release", l, nil) EXCEPT !.before = Len(host[l].sublayers)]
    /\ UNCHANGED <<call, changed, posix_io>>

\* The guest retains a layer it owns a reference of.
GuestRetain(l) ==
    /\ Running /\ Alive(l) /\ guestRefs[l] > 0 /\ guestRefs[l] < MaxGuestRefs
    /\ \E w \in Outcomes(LAMBDA w0 : retain(w0, l)) : Commit(w)
    /\ guestRefs' = [guestRefs EXCEPT ![l] = @ + 1]
    /\ op' = Op("retain", l, nil)
    /\ UNCHANGED <<call, changed, posix_io>>

AddSublayer(this, layer) ==
    /\ Running /\ Alive(this) /\ Alive(layer)
    /\ \E w \in Outcomes(LAMBDA w0 : addSublayer(w0, this, layer)) : Commit(w)
    /\ op' = [Op("addSublayer:", this, layer) EXCEPT !.before = host[layer].superlayer]
    /\ UNCHANGED <<guestRefs, call, changed, posix_io>>

RemoveFromSuperlayer(this) ==
    /\ Running /\ Alive(this)
    /\ \E w \in Outcomes(LAMBDA w0 : removeFromSuperlayer(w0, this)) : Commit(w)
    /\ op' = [Op("removeFromSuperlayer", this, nil) EXCEPT !.before = host[this].superlayer]
    /\ UNCHANGED <<guestRefs, call, changed, posix_io>>

Init ==
    /\ host = [l \in Layers |-> InitHost]
    /\ refcount = [o \in Objects |-> IF o \in Layers THEN 0 ELSE 1]
    /\ guestRefs = [l \in Layers |-> 0]
    /\ contexts = <<>>
    /\ panic = "none"
    /\ call = NoCall
    /\ changed = {}
    /\ posix_io = [files |-> <<>>]
    /\ op = NoOp

\* ------------------------------------- the layer tree's specification
DoAlloc == \E l \in Layers : Alloc(l)
DoGuestRelease == \E l \in Layers : GuestRelease(l)
DoAddSublayer == \E this, layer \in Layers : AddSublayer(this, layer)
DoRemoveFromSuperlayer == \E this \in Layers : RemoveFromSuperlayer(this)

TreeNext ==
    \/ DoAlloc
    \/ DoGuestRelease
    \/ DoAddSublayer
    \/ DoRemoveFromSuperlayer

TreeSpec == Init /\ [][TreeNext]_vars

\* The layer tree with a guest that also retains the layers it owns.
DoGuestRetain == \E l \in Layers : GuestRetain(l)

RefNext ==
    \/ DoAlloc
    \/ DoGuestRetain
    \/ DoGuestRelease
    \/ DoAddSublayer
    \/ DoRemoveFromSuperlayer

RefSpec == Init /\ [][RefNext]_vars

TypeOK ==
    /\ \A l \in Layers : refcount[l] \in Nat /\ guestRefs[l] \in 0..MaxGuestRefs
    /\ panic \in STRING

\* ------------------------------------------------------------ rendering
\* CGBitmapContextGetWidth / CGBitmapContextGetHeight read the context.
CGBitmapContextGet(w, c) ==
    IF w.panic # "none" THEN w
    ELSE IF w.contexts[c].releases > 0 THEN UseFreed(w) ELSE w

\* CGContextTranslateCTM
CGContextTranslateCTM(w, c, dx, dy) ==
    IF w.panic # "none" THEN w
    ELSE LET w1 == IF w.contexts[c].releases > 0 THEN UseFreed(w) ELSE w
         IN  IF w1.panic # "none" THEN w1
             ELSE [w1 EXCEPT !.contexts[c].tx = @ + dx, !.contexts[c].ty = @ + dy]

\* - (())setBackgroundColor:(id)new_color
setBackgroundColor(w, this, new_color) ==
    LET w1 == [w EXCEPT !.host[this].background_color = new_color]
        old_color == w1.host[this].background_color
        w2 == [w1 EXCEPT !.host[this].background_color = new_color]
        w3 == IF new_color # nil THEN CFRetain(w2, new_color) ELSE w2
    IN  IF old_color # nil THEN CFRelease(w3, old_color) ELSE w3

\* A plausible slip: the texture is not marked as out of date.
setContents_KeepsTexture(w, this, new_contents) ==
    LET old_contents == w.host[this].contents
        w2 == [w EXCEPT !.host[this].contents = new_contents]
    IN  release(retain(w2, new_contents), old_contents)

\* - (())setContents:(id)new_contents
setContents(w, this, new_contents) ==
    LET w1 == [w EXCEPT !.host[this].gles_texture_is_up_to_date = FALSE]
        old_contents == w1.host[this].contents
        w2 == [w1 EXCEPT !.host[this].contents = new_contents]
    IN  release(retain(w2, new_contents), old_contents)

\* let need_new_context = ... : the test of the cached context, with the
\* release it makes.
need_new_context(w, cg_context, int_width, int_height) ==
    IF cg_context # None
    THEN LET w1 == CGBitmapContextGet(w, cg_context)
         IN  IF w1.panic # "none" THEN [w |-> w1, need |-> FALSE]
             ELSE IF w1.contexts[cg_context].width = int_width
                     /\ w1.contexts[cg_context].height = int_height
             THEN [w |-> w1, need |-> TRUE]
             ELSE [w |-> CGContextRelease(w1, cg_context), need |-> FALSE]
    ELSE [w |-> w, need |-> TRUE]

Returned(w) ==
    [w |-> w, callback |-> "none", cg_context |-> None, origin |-> NoCall.origin, draw |-> FALSE]

\* displayIfNeeded from the second borrow on: the bitmap context and the
\* translation, up to the sending of drawLayer:inContext:.
drawStep(w, this) ==
    LET h == w.host[this]
        cg_context == h.cg_context
        origin == h.bounds.origin
        size == h.bounds.size
        w1 == [w EXCEPT !.host[this].gles_texture_is_up_to_date = FALSE]
        int_width == round(size.width)
        int_height == round(size.height)
        test == need_new_context(w1, cg_context, int_width, int_height)
        w2 == IF test.need
              THEN LET created == CGBitmapContextCreate(test.w, int_width, int_height, this)
                   IN  [created EXCEPT !.host[this].cg_context = Len(created.contexts)]
              ELSE test.w
        ctx == IF test.need THEN Len(w2.contexts) ELSE cg_context
        w3 == CGContextTranslateCTM(w2, ctx, 0 - origin.x, 0 - origin.y)
    IN  IF test.w.panic # "none" THEN [Returned(test.w) EXCEPT !.draw = TRUE]
        ELSE IF w3.panic # "none" THEN [Returned(w3) EXCEPT !.draw = TRUE]
        ELSE [w |-> w3, callback |-> "drawLayer:inContext:", cg_context |-> ctx,
              origin |-> origin, draw |-> TRUE]

\* A plausible slip: needs_display is read but not cleared.
displayIfNeeded_KeepsDirty(w, this) ==
    LET h == w.host[this]
        delegate == h.delegate
    IN  IF ~h.needs_display THEN Returned(w)
        ELSE IF delegate = nil THEN Returned(w)
        ELSE LET delegate_class == read_isa(delegate)
             IN  IF delegate_class.displayLayer
                 THEN [Returned(w) EXCEPT !.callback = "displayLayer:"]
                 ELSE IF /\ delegate_class.isUIView
                         /\ ~delegate_class.overridesDrawRect
                         /\ ~delegate_class.overridesDrawLayer
                 THEN Returned(w)
                 ELSE drawStep(w, this)

\* A plausible slip: drawLayer:inContext: is preferred to displayLayer:.
displayIfNeeded_DrawLayerFirst(w, this) ==
    LET h == w.host[this]
        delegate == h.delegate
        w1 == [w EXCEPT !.host[this].needs_display = FALSE]
    IN  IF ~h.needs_display THEN Returned(w1)
        ELSE IF delegate = nil THEN Returned(w1)
        ELSE LET delegate_class == read_isa(delegate)
             IN  IF delegate_class.overridesDrawLayer THEN drawStep(w1, this)
                 ELSE IF delegate_class.displayLayer
                 THEN [Returned(w1) EXCEPT !.callback = "displayLayer:"]
                 ELSE IF delegate_class.isUIView /\ ~delegate_class.overridesDrawRect
                 THEN Returned(w1)
                 ELSE drawStep(w1, this)

\* A plausible slip: a UIView that overrides no drawing method is drawn.
displayIfNeeded_NoSkip(w, this) ==
    LET h == w.host[this]
        delegate == h.delegate
        w1 == [w EXCEPT !.host[this].needs_display = FALSE]
    IN  IF ~h.needs_display THEN Returned(w1)
        ELSE IF delegate = nil THEN Returned(w1)
        ELSE LET delegate_class == read_isa(delegate)
             IN  IF delegate_class.displayLayer
                 THEN [Returned(w1) EXCEPT !.callback = "displayLayer:"]
                 ELSE drawStep(w1, this)

\* - (())displayIfNeeded, up to the message it sends to the delegate.
displayIfNeeded(w, this) ==
    LET h == w.host[this]
        delegate == h.delegate
        w1 == [w EXCEPT !.host[this].needs_display = FALSE]
    IN  IF ~h.needs_display THEN Returned(w1)
        ELSE IF delegate = nil THEN Returned(w1)
        ELSE LET delegate_class == read_isa(delegate)
             IN  IF delegate_class.displayLayer
                 THEN [Returned(w1) EXCEPT !.callback = "displayLayer:"]
                 ELSE IF /\ delegate_class.isUIView
                         /\ ~delegate_class.overridesDrawRect
                         /\ ~delegate_class.overridesDrawLayer
                 THEN Returned(w1)
                 ELSE drawStep(w1, this)

\* displayIfNeeded after drawLayer:inContext: returned: the translation
\* is undone with the origin read before the call.
afterDrawLayer(w, frame) ==
    CGContextTranslateCTM(w, frame.cg_context, frame.origin.x, frame.origin.y)

\* ------------------------------------------------------------- geometry
\* - (CGRect)frame
frame(w, this) ==
    LET bounds == w.host[this].bounds
        pos == w.host[this].position
        anchor_point == w.host[this].anchor_point
    IN  [origin |-> Point(fsub(pos.x, fmul(bounds.size.width, anchor_point.x)),
                          fsub(pos.y, fmul(bounds.size.height, anchor_point.y))),
         size |-> bounds.size]

\* A plausible slip: the layer is placed as if its anchor point were the
\* centre.
setFrame_CentredAnchor(w, this, rect) ==
    LET w1 == [w EXCEPT !.host[this].position =
                  Point(fadd(rect.origin.x, fmul(rect.size.width, 1)),
                        fadd(rect.origin.y, fmul(rect.size.height, 1)))]
    IN  [w1 EXCEPT !.host[this].bounds = [origin |-> Point(0, 0), size |-> rect.size]]

\* - (())setFrame:(CGRect)frame
setFrame(w, this, rect) ==
    LET anchor_point == w.host[this].anchor_point
        w1 == [w EXCEPT !.host[this].position =
                  Point(fadd(rect.origin.x, fmul(rect.size.width, anchor_point.x)),
                        fadd(rect.origin.y, fmul(rect.size.height, anchor_point.y)))]
    IN  [w1 EXCEPT !.host[this].bounds = [origin |-> Point(0, 0), size |-> rect.size]]

SetPosition(this, pos) ==
    /\ Running /\ Alive(this)
    /\ host' = [host EXCEPT ![this].position = pos]
    /\ op' = Op("setPosition:", this, nil)
    /\ UNCHANGED <<refcount, guestRefs, contexts, panic, call, changed, posix_io>>

SetAnchorPoint(this, anchor_point) ==
    /\ Running /\ Alive(this)
    /\ host' = [host EXCEPT ![this].anchor_point = anchor_point]
    /\ op' = Op("setAnchorPoint:", this, nil)
    /\ UNCHANGED <<refcount, guestRefs, contexts, panic, call, changed, posix_io>>

SetFrame(this, rect) ==
    /\ Running /\ Alive(this)
    /\ \E w \in Outcomes(LAMBDA w0 : setFrame(w0, this, rect)) : Commit(w)
    /\ op' = [Op("setFrame:", this, nil) EXCEPT !.rect = rect]
    /\ UNCHANGED <<guestRefs, call, changed, posix_io>>

Frame(this) ==
    /\ Running /\ Alive(this)
    /\ op' = [Op("frame", this, nil) EXCEPT
                !.result = frame(World("panic"), this),
                !.before = IF op.name = "setFrame:" /\ op.this = this THEN 1 ELSE 0,
                !.rect = IF op.name = "setFrame:" /\ op.this = this THEN op.rect ELSE ZeroRect]
    /\ UNCHANGED <<host, refcount, guestRefs, contexts, panic, call, changed, posix_io>>

\* ------------------------------------------------- rendering's actions
SetDelegate(this, delegate) ==
    /\ Running /\ Alive(this)
    /\ host' = [host EXCEPT ![this].delegate = delegate]
    /\ op' = Op("setDelegate:", this, nil)
    /\ UNCHANGED <<refcount, guestRefs, contexts, panic, call, changed, posix_io>>

SetBounds(this, bounds) ==
    /\ Running /\ Alive(this)
    /\ host' = [host EXCEPT ![this].bounds = bounds]
    /\ op' = Op("setBounds:", this, nil)
    /\ UNCHANGED <<refcount, guestRefs, contexts, panic, call, changed, posix_io>>

SetNeedsDisplay(this) ==
    /\ Running /\ Alive(this)
    /\ host' = [host EXCEPT ![this].needs_display = TRUE]
    /\ op' = [Op("setNeedsDisplay", this, nil) EXCEPT
                !.before = IF call.this = this /\ op.name = "displayIfNeeded" THEN 1 ELSE 0]
    /\ UNCHANGED <<refcount, guestRefs, contexts, panic, call, changed, posix_io>>

SetBackgroundColor(this, new_color) ==
    /\ Running /\ Alive(this)
    /\ \E w \in Outcomes(LAMBDA w0 : setBackgroundColor(w0, this, new_color)) : Commit(w)
    /\ op' = [Op("setBackgroundColor:", this, new_color) EXCEPT
                !.before = IF new_color = nil THEN 0 ELSE refcount[new_color]]
    /\ UNCHANGED <<guestRefs, call, changed, posix_io>>

SetContents(this, new_contents) ==
    /\ Running /\ Alive(this)
    /\ \E w \in Outcomes(LAMBDA w0 : setContents(w0, this, new_contents)) : Commit(w)
    /\ op' = [Op("setContents:", this, new_contents) EXCEPT
                !.before = IF new_contents = nil THEN 0 ELSE refcount[new_contents],
                !.texture = host[this].gles_texture_is_up_to_date]
    /\ changed' = changed \cup {this}
    /\ UNCHANGED <<guestRefs, call, posix_io>>

\* displayIfNeeded runs until it returns or sends a message to the
\* delegate; nested renders and contexts beyond MaxContexts are left out.
DisplayIfNeeded(this) ==
    /\ Running /\ Alive(this) /\ call = NoCall /\ Len(contexts) < MaxContexts
    /\ \E uaf \in UafOutcomes :
          LET r == displayIfNeeded(World(uaf), this)
          IN  /\ Commit(r.w)
              /\ call' = IF r.callback = "none" THEN NoCall
                         ELSE [this |-> this, selector |-> r.callback,
                               cg_context |-> r.cg_context, origin |-> r.origin]
              /\ changed' = IF r.callback = "drawLayer:inContext:"
                            THEN changed \cup {this} ELSE changed
              /\ op' = [Op("displayIfNeeded", this, nil) EXCEPT
                          !.before = host[this].cg_context,
                          !.callback = r.callback, !.cg_context = r.cg_context,
                          !.draw = r.draw,
                          !.dirty = host[this].needs_display,
                          !.texture = host[this].gles_texture_is_up_to_date,
                          !.after = CASE op.this = this /\ op.name = "displayIfNeeded" -> "quiet"
                                      [] op.this = this /\ op.name = "return" /\ op.before = 0 -> "quiet"
                                      [] op.this = this /\ op.name = "return" /\ op.before = 1 -> "dirtied"
                                      [] OTHER -> "other"]
    /\ UNCHANGED <<guestRefs, posix_io>>

\* The delegate's method returns and displayIfNeeded runs to its end.
CallbackReturn ==
    /\ Running /\ call # NoCall
    /\ IF call.selector = "drawLayer:inContext:"
       THEN \E w \in Outcomes(LAMBDA w0 : afterDrawLayer(w0, call)) : Commit(w)
       ELSE UNCHANGED <<host, refcount, contexts, panic>>
    /\ call' = NoCall
    /\ op' = [Op("return", call.this, nil) EXCEPT
                !.before = CASE op.name = "displayIfNeeded" -> 0
                             [] op.name = "setNeedsDisplay" /\ op.before = 1 -> 1
                             [] OTHER -> 2]
    /\ UNCHANGED <<guestRefs, changed, posix_io>>

\* The compositor, between two operations of the guest, uploads the pixels
\* of a layer whose texture is not up to date and sets the flag.
Upload(this) ==
    /\ Running /\ Alive(this) /\ ~host[this].gles_texture_is_up_to_date
    /\ host' = [host EXCEPT ![this].gles_texture_is_up_to_date = TRUE]
    /\ changed' = changed \ {this}
    /\ op' = Op("upload", this, nil)
    /\ UNCHANGED <<refcount, guestRefs, contexts, panic, call, posix_io>>

\* -------------------------------------- the rendering's specification
\* The life of one layer from alloc to dealloc, with its colors, images
\* and delegate; whatever the guest calls it may also call from inside a
\* delegate callback.
RenderRelease == \E l \in RenderLayers : GuestRelease(l)
DoSetDelegate == \E this \in RenderLayers, d \in Delegates \cup {nil} : SetDelegate(this, d)
DoSetBounds == \E this \in RenderLayers, r \in Rects : SetBounds(this, r)
DoSetNeedsDisplay == \E this \in RenderLayers : SetNeedsDisplay(this)
DoSetBackgroundColor ==
    \E this \in RenderLayers, c \in Colors \cup {nil} : SetBackgroundColor(this, c)
DoSetContents == \E this \in RenderLayers, i \in Images \cup {nil} : SetContents(this, i)
DoDisplayIfNeeded == \E this \in RenderLayers : DisplayIfNeeded(this)
DoUpload == \E this \in RenderLayers : Upload(this)

RenderNext ==
    \/ RenderRelease
    \/ DoSetDelegate
    \/ DoSetBounds
    \/ DoSetNeedsDisplay
    \/ DoSetBackgroundColor
    \/ DoSetContents
    \/ DoDisplayIfNeeded
    \/ CallbackReturn
    \/ DoUpload

\* The layer has just been allocated.
RenderInit ==
    /\ host = [l \in Layers |-> InitHost]
    /\ refcount = [o \in Objects |-> IF o \in Layers \ RenderLayers THEN 0 ELSE 1]
    /\ guestRefs = [l \in Layers |-> IF l \in RenderLayers THEN 1 ELSE 0]
    /\ contexts = <<>>
    /\ panic = "none"
    /\ call = NoCall
    /\ changed = {}
    /\ posix_io = [files |-> <<>>]
    /\ op = NoOp

RenderSpec == RenderInit /\ [][RenderNext]_vars

\* ------------------------------------------------------------- posix_io
STDERR_FILENO == 2
NORMAL_FILENO_BASE == STDERR_FILENO + 1

RECURSIVE BitAnd(_, _)
\* a & b, for a, b >= 0
BitAnd(a, b) ==
    IF a = 0 \/ b = 0 THEN 0 ELSE (a % 2) * (b % 2) + 2 * BitAnd(a \div 2, b \div 2)
\* a | b
BitOr(a, b) == a + b - BitAnd(a, b)
\* a & !b
BitAndNot(a, b) == a - BitAnd(a, b)

O_RDONLY == 0
O_WRONLY == 1
O_RDWR == 2
O_ACCMODE == BitOr(BitOr(O_RDWR, O_WRONLY), O_RDONLY)
O_NONBLOCK == 4
O_APPEND == 8
O_NOFOLLOW == 256
O_CREAT == 512
O_TRUNC == 1024
O_EXCL == 2048
\* A bit open knows nothing of.
UnknownFlag == 2 * O_EXCL
\* Every combination of an access mode, 0..3, with O_APPEND, O_CREAT and
\* O_TRUNC, and with at most one of the other bits.
OpenFlags ==
    {m + a + c + t + x :
        m \in 0..O_ACCMODE, a \in {0, O_APPEND}, c \in {0, O_CREAT}, t \in {0, O_TRUNC},
        x \in {0, O_NONBLOCK, O_NOFOLLOW, O_EXCL, UnknownFlag}}

\* An entry of State.files: None, or Some of an open file.
NoFile == [open |-> FALSE]
SomeFile == [open |-> TRUE]

\* idx counts from 0; negative descriptors leave fd_to_file_idx as an
\* index beyond every table (the cast to usize wraps).
file_idx_to_fd(idx) == idx + NORMAL_FILENO_BASE
fd_to_file_idx(fd) == fd - NORMAL_FILENO_BASE

\* The four assertions open starts with: the first that fails, or "none".
open_asserts(flags) ==
    IF BitAnd(flags, O_ACCMODE) \notin {O_RDONLY, O_WRONLY, O_RDWR}
    THEN "assert access mode"
    ELSE IF BitAndNot(flags, BitOr(O_ACCMODE, BitOr(O_NONBLOCK, BitOr(O_APPEND,
                 BitOr(O_NOFOLLOW, BitOr(O_CREAT, BitOr(O_TRUNC, O_EXCL))))))) # 0
    THEN "assert supported flags"
    ELSE IF BitAnd(flags, O_NOFOLLOW) # 0 THEN "assert O_NOFOLLOW"
    ELSE IF BitAnd(flags, O_EXCL) # 0 THEN "assert O_EXCL"
    ELSE "none"

\* The GuestOpenOptions open builds from the flags.
open_options(flags) ==
    [read |-> BitAnd(flags, BitOr(O_RDONLY, O_RDWR)) # 0,
     write |-> BitAnd(flags, BitOr(O_WRONLY, O_RDWR)) # 0,
     append |-> BitAnd(flags, O_APPEND) # 0,
     create |-> BitAnd(flags, O_CREAT) # 0,
     truncate |-> BitAnd(flags, O_TRUNC) # 0]

\* Never a None of the table: always its end.
free_idx_AlwaysPush(files) == Len(files)

\* The index (from 0) the opened file is stored at: the first None, or
\* the end of the table.
free_idx(files) ==
    IF \E i \in 1..Len(files) : ~files[i].open
    THEN (CHOOSE i \in 1..Len(files) : ~files[i].open /\ \A j \in 1..(i - 1) : files[j].open) - 1
    ELSE Len(files)

\* open(path, flags); found is whether the file system opens the path.
Open(flags, found) ==
    /\ Running
    /\ LET failed == open_asserts(flags)
           options == open_options(flags)
           files == posix_io.files
           idx == free_idx(files)
       IN  IF failed # "none"
           THEN /\ panic' = failed
                /\ op' = Op("open", nil, flags)
                /\ UNCHANGED posix_io
           ELSE IF found
           THEN /\ idx < MaxFiles
                /\ posix_io' = [posix_io EXCEPT !.files =
                       IF idx < Len(files) THEN [files EXCEPT ![idx + 1] = SomeFile]
                       ELSE Append(files, SomeFile)]
                /\ op' = [Op("open", nil, flags) EXCEPT
                            !.options = options, !.before = file_idx_to_fd(idx)]
                /\ UNCHANGED panic
           ELSE /\ op' = [Op("open", nil, flags) EXCEPT !.options = options, !.before = 0 - 1]
                /\ UNCHANGED <<posix_io, panic>>
    /\ UNCHANGED <<host, refcount, guestRefs, contexts, call, changed>>

\* State.file_for_fd: the index (from 0) of the open file of fd, or -1 for
\* None.
file_for_fd(files, fd) ==
    LET idx == fd_to_file_idx(fd)
    IN  IF idx >= 0 /\ idx < Len(files) /\ files[idx + 1].open THEN idx ELSE 0 - 1

\* read(fd, buffer, size); result is what the file's read gives: the
\* number of bytes read, or -1 for an error.
Read(fd, result) ==
    /\ Running
    /\ IF file_for_fd(posix_io.files, fd) < 0
       THEN /\ panic' = "unwrap on None"
            /\ op' = Op("read", nil, fd)
       ELSE /\ op' = [Op("read", nil, fd) EXCEPT !.before = result]
            /\ UNCHANGED panic
    /\ UNCHANGED <<host, refcount, guestRefs, contexts, call, changed, posix_io>>

\* close(fd); synced is whether sync_all succeeds.
Close(fd, synced) ==
    /\ Running
    /\ LET files == posix_io.files
           idx == fd_to_file_idx(fd)
       IN  IF idx < 0 \/ idx >= Len(files)
           THEN /\ panic' = "index out of bounds"
                /\ op' = Op("close", nil, fd)
                /\ UNCHANGED posix_io
           ELSE IF ~files[idx + 1].open
           THEN /\ panic' = "unwrap on None"
                /\ op' = Op("close", nil, fd)
                /\ UNCHANGED posix_io
           ELSE /\ posix_io' = [posix_io EXCEPT !.files[idx + 1] = NoFile]
                /\ op' = [Op("close", nil, fd) EXCEPT !.before = IF synced THEN 0 ELSE 0 - 1]
                /\ UNCHANGED panic
    /\ UNCHANGED <<host, refcount, guestRefs, contexts, call, changed>>

\* The descriptors the guest reads and closes: stderr, those of the table,
\* one more.
CloseFds == STDERR_FILENO..(NORMAL_FILENO_BASE + MaxFiles)

DoOpen == \E flags \in OpenFlags, found \in BOOLEAN : Open(flags, found)
DoRead == \E fd \in CloseFds, result \in {0 - 1, 0, 1} : Read(fd, result)
DoClose == \E fd \in CloseFds, synced \in BOOLEAN : Close(fd, synced)

PosixNext ==
    \/ DoOpen
    \/ DoRead
    \/ DoClose

PosixSpec == Init /\ [][PosixNext]_vars

\* --------------------------------------- the geometry's specification
DoSetPosition == \E this \in RenderLayers, p \in Positions : SetPosition(this, p)
DoSetAnchorPoint == \E this \in RenderLayers, a \in AnchorPoints : SetAnchorPoint(this, a)
DoSetFrame == \E this \in RenderLayers, r \in Frames : SetFrame(this, r)
DoFrame == \E this \in RenderLayers : Frame(this)

GeoNext ==
    \/ DoSetBounds
    \/ DoSetPosition
    \/ DoSetAnchorPoint
    \/ DoSetFrame
    \/ DoFrame

GeoSpec == RenderInit /\ [][GeoNext]_vars

\* ------------------------------------------- a rendered layer in the tree
\* The world after [L setBackgroundColor:], [L setDelegate:], [L setBounds:],
\* [L displayIfNeeded] with its drawLayer:inContext:, [L setContents:] and
\* an upload, for the first layer L, first color and first image; the
\* other layers are as +alloc made them.
Rendered ==
    LET L == 1
        w0 == [host |-> [l \in Layers |-> InitHost],
               refcount |-> [o \in Objects |-> 1],
               contexts |-> <<>>, panic |-> "none", uaf |-> "panic"]
        w1 == setBackgroundColor(w0, L, 101)
        w2 == [w1 EXCEPT !.host[L].delegate = 303, !.host[L].bounds = Rect(2, 0, 4, 2)]
        r == displayIfNeeded(w2, L)
        w3 == afterDrawLayer(r.w, r)
        w4 == setContents(w3, L, 201)
    IN  [w4 EXCEPT !.host[L].gles_texture_is_up_to_date = TRUE]

SceneInit ==
    /\ host = Rendered.host
    /\ refcount = Rendered.refcount
    /\ guestRefs = [l \in Layers |-> 1]
    /\ contexts = Rendered.contexts
    /\ panic = Rendered.panic
    /\ call = NoCall
    /\ changed = {}
    /\ posix_io = [files |-> <<>>]
    /\ op = NoOp

\* The layer tree around a layer that has been rendered.
SceneNext ==
    \/ DoGuestRelease
    \/ DoAddSublayer
    \/ DoRemoveFromSuperlayer

SceneSpec == SceneInit /\ [][SceneNext]_vars

\* ------------------------------------------- the rendering's properties
\* C1: after setBackgroundColor(X) and then setBackgroundColor(Y) on one
\* layer, X and Y distinct colors, X's reference count is what it was
\* before the first call, one fewer than right after it, and Y's is one
\* higher than before the second call.
C1_OldReleasedNewRetained ==
    [][(/\ op.name = "setBackgroundColor:" /\ op'.name = "setBackgroundColor:"
        /\ op.this = op'.this
        /\ op.arg \in Colors /\ op'.arg \in Colors /\ op.arg # op'.arg
        /\ panic' = "none")
       => /\ refcount'[op.arg] = op.before
          /\ refcount'[op.arg] = refcount[op.arg] - 1
          /\ refcount'[op'.arg] = refcount[op'.arg] + 1]_vars

\* C2: when displayIfNeeded reaches the draw step with no cached context or
\* with one whose size is not the rounded bounds size, the stale context is
\* released, a new live context of the rounded size is created and cached,
\* and that one is passed to drawLayer:inContext:.
C2_NewContextOnMismatch ==
    [][LET this == op'.this
           old == host[this].cg_context
           width == round(host[this].bounds.size.width)
           height == round(host[this].bounds.size.height)
           new == Len(contexts')
       IN  (/\ op'.name = "displayIfNeeded" /\ op'.draw
            /\ (old = None \/ contexts[old].width # width \/ contexts[old].height # height))
           => /\ Len(contexts') = Len(contexts) + 1
              /\ contexts'[new].width = width /\ contexts'[new].height = height
              /\ contexts'[new].releases = 0
              /\ host'[this].cg_context = new
              /\ op'.callback = "drawLayer:inContext:" /\ op'.cg_context = new
              /\ old # None => contexts'[old].releases = 1]_vars

\* C3: when displayIfNeeded reaches the draw step with a cached context of
\* the rounded bounds size, no context is created, the cached one is not
\* released, stays cached and is passed to drawLayer:inContext:.
C3_ContextReusedOnMatch ==
    [][LET this == op'.this
           old == host[this].cg_context
           width == round(host[this].bounds.size.width)
           height == round(host[this].bounds.size.height)
       IN  (/\ op'.name = "displayIfNeeded" /\ op'.draw
            /\ old # None /\ contexts[old].releases = 0
            /\ contexts[old].width = width /\ contexts[old].height = height)
           => /\ Len(contexts') = Len(contexts)
              /\ contexts'[old].releases = 0
              /\ host'[this].cg_context = old
              /\ op'.callback = "drawLayer:inContext:" /\ op'.cg_context = old]_vars

\* C4: once the layer has been deallocated, whatever was assigned and
\* rendered during its life, every color and image has the reference count
\* it had before the layer held it and every bitmap context the layer
\* created has been released exactly once.
C4_EverythingReleasedOnce ==
    (panic = "none" /\ \A l \in RenderLayers : ~Alive(l))
    => /\ \A o \in Colors \cup Images : refcount[o] = 1
       /\ \A c \in 1..Len(contexts) : contexts[c].releases = 1

\* The class of the delegate of a layer, as displayIfNeeded resolves it.
Skips(delegate) ==
    \/ delegate = nil
    \/ /\ ~read_isa(delegate).displayLayer
       /\ read_isa(delegate).isUIView
       /\ ~read_isa(delegate).overridesDrawRect
       /\ ~read_isa(delegate).overridesDrawLayer
Displays(delegate) == delegate # nil /\ read_isa(delegate).displayLayer

\* C12: a displayIfNeeded that directly follows a displayIfNeeded of the
\* same layer, whose callback (if one was sent) made no call, sends no
\* callback and changes nothing: with the at most one callback of the first
\* call that is at most one callback in total.
C12_SecondCallDoesNothing ==
    [][(op'.name = "displayIfNeeded" /\ op'.after = "quiet")
       => /\ op'.callback = "none" /\ call' = NoCall
          /\ UNCHANGED <<host, refcount, contexts, panic, changed>>]_vars

\* The second of two calls, the first of which drew the layer into a
\* bitmap context.
C12_Witness ==
    /\ op.name = "displayIfNeeded" /\ op.after = "quiet"
    /\ host[op.this].delegate = 303 /\ host[op.this].cg_context # None
    /\ host[op.this].gles_texture_is_up_to_date = FALSE

C14_DisplayLayerTakesPrecedence ==
    [][/\ (/\ op'.name = "displayIfNeeded"
            /\ host[op'.this].needs_display /\ Displays(host[op'.this].delegate))
          => /\ op'.callback = "displayLayer:" /\ ~op'.draw
             /\ call'.this = op'.this /\ call'.selector = "displayLayer:"
             /\ call = NoCall
             /\ host' = [host EXCEPT ![op'.this].needs_display = FALSE]
             /\ UNCHANGED <<refcount, contexts, panic>>
       /\ (op'.name = "return" /\ call.selector = "displayLayer:")
          => /\ call' = NoCall
             /\ UNCHANGED <<host, refcount, contexts, panic>>]_vars

\* displayLayer: was sent for a layer that has a cached bitmap context.
C14_Witness ==
    /\ op.name = "displayIfNeeded" /\ op.callback = "displayLayer:"
    /\ call.selector = "displayLayer:" /\ call.this = op.this
    /\ host[op.this].delegate = 304 /\ host[op.this].cg_context # None

\* C15: for a dirty layer whose delegate is nil, or a UIView that overrides
\* neither drawRect: nor drawLayer:inContext: and has no displayLayer:,
\* displayIfNeeded clears needs_display and does nothing else: no callback,
\* no context created or released, the texture flag and every other field
\* as before, no panic.
C15_MissIsSkip ==
    [][(/\ op'.name = "displayIfNeeded"
        /\ host[op'.this].needs_display /\ Skips(host[op'.this].delegate))
       => /\ host' = [host EXCEPT ![op'.this].needs_display = FALSE]
          /\ op'.callback = "none" /\ ~op'.draw /\ call' = NoCall
          /\ UNCHANGED <<refcount, contexts, panic, changed>>]_vars

\* A dirty layer of a plain UIView was skipped; it keeps its cached
\* context, its contents and its uploaded texture.
C15_Witness ==
    /\ op.name = "displayIfNeeded" /\ op.dirty /\ op.texture /\ op.callback = "none"
    /\ host[op.this].delegate = 301
    /\ host[op.this].cg_context # None /\ host[op.this].contents # nil
    /\ host[op.this].gles_texture_is_up_to_date

\* The same with no delegate.
C15_WitnessNil ==
    /\ op.name = "displayIfNeeded" /\ op.dirty /\ op.callback = "none"
    /\ host[op.this].delegate = nil
    /\ host[op.this].cg_context # None /\ host[op.this].gles_texture_is_up_to_date

\* C16: with the compositor setting the flag between any two operations,
\* no operation of CALayer sets gles_texture_is_up_to_date, and a layer
\* whose contents were set or to whose delegate drawLayer:inContext: was
\* sent since its last upload has the flag false.
C16_TextureFlag ==
    /\ [](\A l \in changed : ~host[l].gles_texture_is_up_to_date)
    /\ [][op'.name # "upload" =>
             \A l \in Layers : host'[l].gles_texture_is_up_to_date
                                  => host[l].gles_texture_is_up_to_date]_vars

\* The contents of a layer were set after its texture had been uploaded.
C16_Witness ==
    /\ op.name = "setContents:" /\ op.texture /\ op.this \in changed
    /\ ~host[op.this].gles_texture_is_up_to_date
    /\ host[op.this].contents # nil

\* drawLayer:inContext: was sent for a layer whose texture had been
\* uploaded.
C16_WitnessDraw ==
    /\ op.name = "displayIfNeeded" /\ op.texture /\ op.this \in changed
    /\ op.callback = "drawLayer:inContext:" /\ call.this = op.this
    /\ ~host[op.this].gles_texture_is_up_to_date

Count(s, x) == Cardinality({i \in 1..Len(s) : s[i] = x})
Without(s, x) == LET Keep(y) == y # x IN SelectSeq(s, Keep)
Parents(c) == {p \in Layers : c \in Range(host[p].sublayers)}

RECURSIVE Up(_, _)
\* The layer n superlayer links above l (nil when the chain ends sooner).
Up(l, n) == IF l = nil \/ n = 0 THEN l ELSE Up(host[l].superlayer, n - 1)
Ancestors(l) == {Up(l, n) : n \in 1..NLayers} \ {nil}
Acyclic == \A l \in Layers : l \notin Ancestors(l)
AtMostOneParent ==
    \A c \in Layers : Cardinality(Parents(c)) <= 1 /\ \A p \in Parents(c) : Count(host[p].sublayers, c) = 1

\* C5 as stated: after any sequence of addSublayer and removeFromSuperlayer
\* calls, self-adds and ancestor-adds included, no layer is its own
\* ancestor and each layer is in the sublayers of at most one layer.
C5_AlwaysAcyclic == Acyclic /\ AtMostOneParent

\* C5 as amended: each layer is always in the sublayers of at most one
\* layer, once; and an acyclic tree stays acyclic under every operation
\* except addSublayer(P, C) with C = P or C an ancestor of P, which
\* addSublayer carries out without any check.
C5_AcyclicUnlessCyclicAdd ==
    /\ []AtMostOneParent
    /\ [][(Acyclic /\ ~(op'.name = "addSublayer:"
                        /\ (op'.arg = op'.this \/ op'.arg \in Ancestors(op'.this))))
          => Acyclic']_vars

\* A layer was moved from one superlayer to another in a three-level tree.
C5_Witness ==
    /\ op.name = "addSublayer:" /\ op.before \notin {nil, op.this}
    /\ Acyclic
    /\ \E a, b, c \in Layers :
          /\ Cardinality({a, b, c}) = 3
          /\ host[c].superlayer = b /\ host[b].superlayer = a

\* C6 as stated: the dealloc of a layer that still has one sublayer
\* attached is fatal.
C6_DeallocWithSublayerIsFatal ==
    (op.name = "release" /\ ~Alive(op.this) /\ op.before = 1) => panic # "none"

\* C6 as amended: the dealloc of a layer that still has sublayers succeeds:
\* every sublayer it had gets superlayer = nil, loses exactly one reference
\* and is in no sublayers list afterwards, and nothing panics.
C6_DeallocDetachesSublayers ==
    [][\A l \in Layers : (Alive(l) /\ ~Alive(l)') =>
          /\ panic' = "none"
          /\ \A c \in Range(host[l].sublayers) :
                /\ host'[c].superlayer = nil
                /\ refcount'[c] = refcount[c] - 1
                /\ \A p \in Layers : c \notin Range(host'[p].sublayers)]_vars

\* The guest released a layer with one sublayer; the layer is gone, the
\* sublayer lives on without a superlayer.
C6_Witness ==
    /\ op.name = "release" /\ ~Alive(op.this) /\ op.before = 1 /\ panic = "none"
    /\ \E c \in Layers : Alive(c) /\ host[c].superlayer = nil /\ guestRefs[c] = refcount[c]

\* C7: parent and child links agree in every reachable state: every entry
\* C of L.sublayers has C.superlayer = L, and every layer C with a non-nil
\* superlayer P is an entry of P.sublayers.
C7_LinksAgree ==
    /\ \A l \in Layers : \A c \in Range(host[l].sublayers) :
          Alive(l) /\ Alive(c) /\ host[c].superlayer = l
    /\ \A c \in Layers : host[c].superlayer # nil =>
          Alive(c) /\ Alive(host[c].superlayer) /\ c \in Range(host[host[c].superlayer].sublayers)

\* A layer with two sublayers, right after a third layer's dealloc or
\* removal changed the tree.
C7_Witness ==
    /\ op.name \in {"release", "removeFromSuperlayer"} /\ op.before # 0
    /\ \E p \in Layers : Len(host[p].sublayers) = 2

\* C8: after addSublayer(P, C), whatever C's superlayer was, C.superlayer is
\* P, C is in P.sublayers exactly once and last, and in no other layer's
\* sublayers.
C8_AddSublayerAttaches ==
    [][op'.name = "addSublayer:" =>
          LET P == op'.this
              C == op'.arg
          IN  /\ panic' = "none"
              /\ host'[C].superlayer = P
              /\ Count(host'[P].sublayers, C) = 1
              /\ host'[P].sublayers[Len(host'[P].sublayers)] = C
              /\ \A Q \in Layers \ {P} : C \notin Range(host'[Q].sublayers)]_vars

\* C was moved to P from another superlayer Q, and P has other sublayers.
C8_Witness ==
    /\ op.name = "addSublayer:" /\ op.before \notin {nil, op.this}
    /\ host[op.arg].superlayer = op.this
    /\ Len(host[op.this].sublayers) = 2

\* C9: if C is already a sublayer of P, addSublayer(P, C) moves C to the
\* end of P.sublayers, keeps the order of the others, does not duplicate C
\* and leaves every reference count as it was.
C9_ReAddMovesToEnd ==
    [][(op'.name = "addSublayer:" /\ host[op'.arg].superlayer = op'.this) =>
          LET P == op'.this
              C == op'.arg
          IN  /\ host'[P].sublayers = Append(Without(host[P].sublayers, C), C)
              /\ Count(host'[P].sublayers, C) = 1
              /\ refcount' = refcount
              /\ host'[C].superlayer = P]_vars

\* C was the first of two sublayers of P and is now the last.
C9_Witness ==
    /\ op.name = "addSublayer:" /\ op.before = op.this /\ op.arg # op.this
    /\ Len(host[op.this].sublayers) = 2
    /\ host[op.this].sublayers[2] = op.arg

\* C10: removeFromSuperlayer(C) with superlayer P leaves C.superlayer nil,
\* P.sublayers (while P exists) as before without C, and C's reference
\* count one lower; with no superlayer it changes nothing.
C10_RemoveFromSuperlayer ==
    [][op'.name = "removeFromSuperlayer" =>
          LET C == op'.this
              P == host[C].superlayer
          IN  IF P = nil
              THEN UNCHANGED <<host, refcount, guestRefs, contexts, panic>>
              ELSE /\ panic' = "none"
                   /\ host'[C].superlayer = nil
                   /\ refcount'[P] > 0 => host'[P].sublayers = Without(host[P].sublayers, C)
                   /\ \A Q \in Layers : C \notin Range(host'[Q].sublayers)
                   /\ refcount'[C] = refcount[C] - 1]_vars

\* C was removed from a superlayer that keeps another sublayer, and C is
\* still alive.
C10_Witness ==
    /\ op.name = "removeFromSuperlayer" /\ op.before # nil
    /\ Alive(op.this) /\ host[op.this].superlayer = nil
    /\ Alive(op.before) /\ Len(host[op.before].sublayers) = 1

\* The removal of a layer that has no superlayer.
C10_WitnessNoOp ==
    op.name = "removeFromSuperlayer" /\ op.before = nil /\ Alive(op.this)

\* C11: whatever the guest adds, removes, retains and releases (never more
\* releases than it owns), the assertion of dealloc that the superlayer is
\* nil never fails, no layer with a superlayer is deallocated, and the
\* layer given to addSublayer is alive when addSublayer returns: its count
\* did not reach zero on the way from the old superlayer to the new one.
C11_NoAttachedDealloc ==
    /\ panic # "assert superlayer == nil"
    /\ \A l \in Layers : host[l].superlayer # nil => Alive(l)
    /\ op.name = "addSublayer:" => (panic = "none" /\ Alive(op.arg))

\* A layer the guest no longer owns, held by its superlayer alone, was
\* moved to another superlayer, in a run where the guest retained a layer.
C11_Witness ==
    /\ op.name = "addSublayer:" /\ op.before \notin {nil, op.this} /\ op.arg # op.this
    /\ guestRefs[op.arg] = 0 /\ refcount[op.arg] = 1
    /\ host[op.arg].superlayer = op.this
    /\ \E l \in Layers : guestRefs[l] = MaxGuestRefs

\* C17 as stated: addSublayer: and removeFromSuperlayer change nothing but
\* superlayer links, sublayers lists and reference counts of layers: every
\* other field of every layer, every bitmap context and the reference
\* count of every color and image are as before.
C17_TreeOpsTouchNoRenderingState ==
    [][op'.name \in {"addSublayer:", "removeFromSuperlayer"} =>
          /\ \A l \in Layers :
                host'[l] = [host[l] EXCEPT !.superlayer = host'[l].superlayer,
                                           !.sublayers = host'[l].sublayers]
          /\ contexts' = contexts
          /\ \A o \in Colors \cup Images : refcount'[o] = refcount[o]]_vars

\* C17 as amended: the same for every layer that is alive afterwards, and
\* for the contexts, colors and images unless the operation deallocated a
\* layer: removeFromSuperlayer gives back the superlayer's reference, and
\* when that was the last one the layer is torn down as by dealloc.
C17_TreeOpsKeepRenderingStateOfSurvivors ==
    [][op'.name \in {"addSublayer:", "removeFromSuperlayer"} =>
          /\ \A l \in Layers : refcount'[l] > 0 =>
                host'[l] = [host[l] EXCEPT !.superlayer = host'[l].superlayer,
                                           !.sublayers = host'[l].sublayers]
          /\ (\A l \in Layers : Alive(l) => refcount'[l] > 0) =>
                /\ contexts' = contexts
                /\ \A o \in Colors \cup Images : refcount'[o] = refcount[o]
          /\ op'.name = "addSublayer:" => \A l \in Layers : Alive(l) => refcount'[l] > 0]_vars

\* The rendered layer was removed from its superlayer and is still alive,
\* with its contents, context, color and uploaded texture.
C17_Witness ==
    /\ op.name = "removeFromSuperlayer" /\ op.before # nil /\ Alive(op.this)
    /\ host[op.this].contents # nil /\ host[op.this].cg_context # None
    /\ host[op.this].background_color # nil
    /\ host[op.this].gles_texture_is_up_to_date /\ ~host[op.this].needs_display

\* The rendered layer was moved from one superlayer to another.
C17_WitnessAdd ==
    /\ op.name = "addSublayer:" /\ op.before \notin {nil, op.this}
    /\ host[op.arg].contents # nil /\ host[op.arg].cg_context # None
    /\ host[op.arg].gles_texture_is_up_to_date /\ guestRefs[op.arg] = 0

\* ------------------------------------------- the geometry's properties
\* C18 as stated: whatever bounds, position and anchorPoint were, a read
\* of frame after setFrame(F) returns F, origin and size, bounds.origin is
\* (0,0), bounds.size is F.size, and setFrame left anchorPoint as it was.
C18_FrameRoundTrip ==
    /\ [](op.name = "frame" /\ op.before = 1 =>
            /\ op.result = op.rect
            /\ host[op.this].bounds = [origin |-> Point(0, 0), size |-> op.rect.size])
    /\ [][op'.name = "setFrame:" =>
            host'[op'.this].anchor_point = host[op'.this].anchor_point]_vars

\* The distance of a coordinate read from the one set is at most half a
\* unit in the last place of position and half a unit of the value read:
\* the roundings of the sum in setFrame: and of the difference in frame.
WithinRounding(read, set, pos) == 2 * Abs(read - set) <= UlpOf(pos) + UlpOf(read)
\* F.origin + F.size * anchorPoint is a float: setFrame: rounds nothing.
ExactPosition(rect, anchor_point) ==
    /\ UlpOf(rect.origin.x + fmul(rect.size.width, anchor_point.x)) = 1
    /\ UlpOf(rect.origin.y + fmul(rect.size.height, anchor_point.y)) = 1

\* C18 as amended: after setFrame(F) a read of frame returns F.size and an
\* origin equal to F.origin up to floating-point rounding (exactly F.origin
\* when the position setFrame computes needs no rounding); bounds.origin
\* is (0,0), bounds.size is F.size, and anchorPoint is as it was.
C18_FrameRoundTripToTolerance ==
    /\ [](op.name = "frame" /\ op.before = 1 =>
            LET h == host[op.this]
            IN  /\ op.result.size = op.rect.size
                /\ WithinRounding(op.result.origin.x, op.rect.origin.x, h.position.x)
                /\ WithinRounding(op.result.origin.y, op.rect.origin.y, h.position.y)
                /\ ExactPosition(op.rect, h.anchor_point) => op.result = op.rect
                /\ h.bounds = [origin |-> Point(0, 0), size |-> op.rect.size])
    /\ [][op'.name = "setFrame:" =>
            host'[op'.this].anchor_point = host[op'.this].anchor_point]_vars

\* frame was read after a setFrame: whose position needed rounding, with an
\* anchor point that is not the default: the origin read is not the one
\* set.
C18_Witness ==
    /\ op.name = "frame" /\ op.before = 1
    /\ host[op.this].anchor_point = Point(2, 1)
    /\ op.result.origin.x # op.rect.origin.x
    /\ op.result.size = op.rect.size

\* frame was read after a setFrame: that rounded nothing, on a layer whose
\* position and anchor point had been set.
C18_WitnessExact ==
    /\ op.name = "frame" /\ op.before = 1
    /\ host[op.this].anchor_point = Point(0, 2)
    /\ op.rect.origin.x = 0 - 1 /\ op.rect.size.width = MaxCoord - 1
    /\ op.result = op.rect

\* ------------------------------------------------- posix_io's properties
\* C20: open passes to the file system read for O_RDONLY and O_RDWR only,
\* write for O_WRONLY and O_RDWR only, and append, create and truncate
\* exactly for O_APPEND, O_CREAT and O_TRUNC; with an access mode that is
\* none of the three it aborts.
C20_OpenTranslatesFlags ==
    op.name = "open" =>
        LET mode == BitAnd(op.arg, O_ACCMODE)
        IN  /\ mode \notin {O_RDONLY, O_WRONLY, O_RDWR} => panic # "none"
            /\ panic = "none" =>
                  /\ op.options.read = (mode \in {O_RDONLY, O_RDWR})
                  /\ op.options.write = (mode \in {O_WRONLY, O_RDWR})
                  /\ op.options.append = (BitAnd(op.arg, O_APPEND) # 0)
                  /\ op.options.create = (BitAnd(op.arg, O_CREAT) # 0)
                  /\ op.options.truncate = (BitAnd(op.arg, O_TRUNC) # 0)

\* The descriptors of the open files of a table.
OpenFds(files) == {file_idx_to_fd(i - 1) : i \in {j \in 1..Len(files) : files[j].open}}

\* The table with the entry at idx (from 0) set to entry, one entry longer
\* if idx is its end.
WithEntry(files, idx, entry) ==
    IF idx < Len(files) THEN [files EXCEPT ![idx + 1] = entry] ELSE Append(files, entry)

\* C21: an open that succeeds returns 3 plus the lowest index of the table
\* that holds no file (its end if every entry holds one), a descriptor that
\* is at least 3 and was not open, and changes that entry only; an open the
\* file system refuses returns -1 and leaves the table as it was; a close
\* empties the entry of its descriptor and no other, whatever it returns.
C21_DescriptorAllocation ==
    [][LET files == posix_io.files
           fd == op'.before
           idx == fd - NORMAL_FILENO_BASE
       IN  /\ (op'.name = "open" /\ panic' = "none" /\ fd # 0 - 1) =>
                 /\ fd > STDERR_FILENO
                 /\ fd \notin OpenFds(files)
                 /\ idx <= Len(files)
                 /\ \A j \in 1..idx : files[j].open
                 /\ posix_io'.files = WithEntry(files, idx, SomeFile)
                 /\ OpenFds(posix_io'.files) = OpenFds(files) \cup {fd}
           /\ (op'.name = "open" /\ panic' = "none" /\ fd = 0 - 1) =>
                 posix_io' = posix_io
           /\ (op'.name = "close" /\ panic' = "none") =>
                 /\ op'.arg \in OpenFds(files)
                 /\ posix_io'.files = WithEntry(files, op'.arg - NORMAL_FILENO_BASE, NoFile)
                 /\ OpenFds(posix_io'.files) = OpenFds(files) \ {op'.arg}
      ]_vars

\* The last call was an open that returned the first descriptor while the
\* table had two entries: the entry of a closed descriptor was used again,
\* with the second descriptor still open.
C21_Witness ==
    /\ op.name = "open"
    /\ panic = "none"
    /\ op.before = NORMAL_FILENO_BASE
    /\ Len(posix_io.files) = 2
    /\ OpenFds(posix_io.files) = {NORMAL_FILENO_BASE, NORMAL_FILENO_BASE + 1}

\* The last call was an open the file system refused, with a file open.
C21_WitnessFailed ==
    /\ op.name = "open"
    /\ panic = "none"
    /\ op.before = 0 - 1
    /\ OpenFds(posix_io.files) # {}

====
